---- MODULE Spec2Model ----
(***************************************************************************)
(* Model of the abyssal-world data fusion pipeline (merge_abyssal_data.py) *)
(* and of the two readers of its output, the grid API (app/main.py) and    *)
(* the query-tool module (app/tools.py).                                   *)
(*                                                                         *)
(* A cell value is one of: Null (NaN / None), Str(chars), Num(n) or        *)
(* List(values).  A text is a sequence of one-character strings.  A data   *)
(* frame is [cols |-> <<names>>, rows |-> <<rows>>], a row being the       *)
(* sequence of its values in column order.                                 *)
(***************************************************************************)
EXTENDS Integers, Sequences, FiniteSets, TLC

VARIABLES
    exists,     \* the input files present under Abyssal_World/
    quota,      \* source records the input files may still supply (model bound)
    pc,         \* position of main(): check, loop, food, save, done
    idx,        \* position of the for loop in csv_files
    df_cells,   \* the accumulated grid data frame
    df_other,   \* the table the loop body last handed to the merge
    src,        \* file name -> the data frame read_csv returned for it
    merged,     \* merged.csv: NoFile, or File([cols, rows]) of field texts
    stdout,     \* what main() printed, one tag per print call
    ret,        \* "pending" while main() runs, then the value it returned
    text,       \* a field text handed to the readers' parsers, once written
    value,      \* a cell value handed to the serializer
    parsed,     \* what the parsers made of text, per reader
    grid_resp,  \* the response of GET /api/grid
    tools_mod   \* the state of the import of app/tools.py

vars == <<exists, quota, pc, idx, df_cells, df_other, src, merged, stdout, ret,
          text, value, parsed, grid_resp, tools_mod>>

pipeVars == <<exists, quota, pc, idx, df_cells, df_other, src, merged, stdout, ret>>
textVars == <<text, value, parsed>>
readerVars == <<grid_resp, tools_mod>>

\* ------------------------------------------------------------------ bounds

\* Total number of records the secondary and food-web files supply in a run
\* whose optional files are all among RecordFiles.
MaxRecs == 3
\* The same, in a run with any other optional file present.
MaxRecsWide == 1
\* Longest raw field text handed to the parsers.
MaxLen == 4
\* Longest list handed to the serializer.
MaxElems == 2

Coords == {<<0, 0>>, <<0, 1>>}

\* ------------------------------------------------------------------ values

Null == [k |-> "null"]
Str(s) == [k |-> "str", s |-> s]
Num(n) == [k |-> "num", n |-> n]
List(l) == [k |-> "list", l |-> l]

IsNull(v) == v.k = "null"
IsList(v) == v.k = "list"
IsStr(v) == v.k = "str"

EmptyStr == Str(<<>>)

Trench == Str(<<"t", "r", "e", "n", "c", "h">>)
Reef == Str(<<"r", "e", "e", "f">>)
Biomes == {Trench, Reef}

Letters == <<"a", "b", "c">>
Digits == <<"1", "2", "3", "4", "5", "6", "7", "8", "9">>

\* The value of the j-th value column in the i-th record of a source file.
\* Every record carries its own position, so that a value names its record.
SrcVal(j, i) == Str(<<Letters[j], Digits[i]>>)

\* ------------------------------------------------------------- data frames

Indices(n) == [i \in 1..n |-> i]

Range(s) == {s[i] : i \in 1..Len(s)}

HasCol(df, c) == c \in Range(df.cols)

ColIdx(df, c) == CHOOSE j \in 1..Len(df.cols) : df.cols[j] = c

Cell(df, i, c) == df.rows[i][ColIdx(df, c)]

KeyOf(df, i) == <<Cell(df, i, "row").n, Cell(df, i, "col").n>>

Keys(df) == [i \in 1..Len(df.rows) |-> KeyOf(df, i)]

EmptyFrame == [cols |-> <<>>, rows |-> <<>>]

\* Character order of the texts (ASCII order of the characters used).
AsciiOrder == <<" ", "\"", "'", ",", "0", "1", "2", "3", "4", "5", "6", "7", "8", "9",
                "[", "]", "a", "b", "c", "e", "f", "h", "n", "r", "t">>

Ord(ch) == CHOOSE i \in 1..Len(AsciiOrder) : AsciiOrder[i] = ch

RECURSIVE TextLess(_, _)
TextLess(a, b) ==
    IF b = <<>> THEN FALSE
    ELSE IF a = <<>> THEN TRUE
    ELSE IF Head(a) # Head(b) THEN Ord(Head(a)) < Ord(Head(b))
    ELSE TextLess(Tail(a), Tail(b))

\* The sort order of group keys: numbers by value, strings by character.
ValLess(a, b) == IF a.k = "num" THEN a.n < b.n ELSE TextLess(a.s, b.s)

RECURSIVE KeyLess(_, _)
KeyLess(a, b) ==
    IF a = <<>> THEN FALSE
    ELSE IF Head(a) # Head(b) THEN ValLess(Head(a), Head(b))
    ELSE KeyLess(Tail(a), Tail(b))

RECURSIVE SortKeys(_)
SortKeys(S) ==
    IF S = {} THEN <<>>
    ELSE LET m == CHOOSE x \in S : \A y \in S \ {x} : KeyLess(x, y)
         IN <<m>> \o SortKeys(S \ {m})

\* The values of row i of df in the columns named by on.
KeyTuple(df, i, on) == [j \in 1..Len(on) |-> Cell(df, i, on[j])]

\* df.rename(columns={c: prefix_c for c not in ['row', 'col']})
Rename(df, prefix) ==
    [df EXCEPT !.cols = [j \in 1..Len(df.cols) |->
        IF df.cols[j] \in {"row", "col"} THEN df.cols[j]
        ELSE prefix \o "_" \o df.cols[j]]]

\* df[c] = df[c].fillna('')
FillNa(df, c) ==
    [df EXCEPT !.rows = [i \in 1..Len(df.rows) |->
        [j \in 1..Len(df.cols) |->
            IF df.cols[j] = c /\ IsNull(df.rows[i][j]) THEN EmptyStr
            ELSE df.rows[i][j]]]]

\* A check that sees only repeats in consecutive rows.
DuplicatedAdjacent(df, on) ==
    \E i \in 1..(Len(df.rows) - 1) : KeyTuple(df, i, on) = KeyTuple(df, i + 1, on)

\* df.duplicated(subset=on).any()
Duplicated(df, on) ==
    \E i, j \in 1..Len(df.rows) :
        i < j /\ KeyTuple(df, i, on) = KeyTuple(df, j, on)

\* An aggregation that lists each group's values last record first.
GroupByAggListReversed(df, on, value_cols) ==
    LET n == Len(df.rows)
        keys == SortKeys({KeyTuple(df, i, on) : i \in 1..n})
        members(key) == SelectSeq(Indices(n), LAMBDA i : KeyTuple(df, i, on) = key)
        agg(key, c) == LET m == members(key)
                       IN List([p \in 1..Len(m) |-> Cell(df, m[Len(m) + 1 - p], c)])
    IN [cols |-> on \o value_cols,
        rows |-> [g \in 1..Len(keys) |->
            keys[g] \o [j \in 1..Len(value_cols) |-> agg(keys[g], value_cols[j])]]]

\* df.groupby(on)[value_cols].agg(list).reset_index(): one row per distinct
\* key, in key order; each value column holds the list of the group's values
\* in source-row order.
GroupByAggList(df, on, value_cols) ==
    LET n == Len(df.rows)
        keys == SortKeys({KeyTuple(df, i, on) : i \in 1..n})
        members(key) == SelectSeq(Indices(n), LAMBDA i : KeyTuple(df, i, on) = key)
        agg(key, c) == LET m == members(key)
                       IN List([p \in 1..Len(m) |-> Cell(df, m[p], c)])
    IN [cols |-> on \o value_cols,
        rows |-> [g \in 1..Len(keys) |->
            keys[g] \o [j \in 1..Len(value_cols) |-> agg(keys[g], value_cols[j])]]]

\* A cleanup that keeps every list.
clean_prey_kept(lst) == lst

\* lines 62-66
clean_prey(lst) ==
    IF IsList(lst) /\ \A p \in 1..Len(lst.l) : lst.l[p] = EmptyStr
    THEN Null ELSE lst

\* df[c] = df[c].apply(clean_prey)
ApplyCleanPrey(df, c) ==
    [df EXCEPT !.rows = [i \in 1..Len(df.rows) |->
        [j \in 1..Len(df.cols) |->
            IF df.cols[j] = c THEN clean_prey(df.rows[i][j]) ELSE df.rows[i][j]]]]

\* The columns of right that a join adds: all of them, less the key columns
\* when both sides name the key alike (on=...).
JoinedCols(right, left_on, right_on) ==
    SelectSeq(Indices(Len(right.cols)),
              LAMBDA j : ~(left_on = right_on /\ right.cols[j] \in Range(right_on)))

RECURSIVE LeftJoinRows(_, _, _, _, _)
LeftJoinRows(left, right, left_on, right_on, i) ==
    IF i > Len(left.rows) THEN <<>>
    ELSE LET add == JoinedCols(right, left_on, right_on)
             hits == SelectSeq(Indices(Len(right.rows)),
                         LAMBDA r : KeyTuple(right, r, right_on) = KeyTuple(left, i, left_on))
             row(r) == left.rows[i] \o [a \in 1..Len(add) |-> right.rows[r][add[a]]]
             none == left.rows[i] \o [a \in 1..Len(add) |-> Null]
         IN (IF hits = <<>> THEN <<none>>
             ELSE [h \in 1..Len(hits) |-> row(hits[h])])
            \o LeftJoinRows(left, right, left_on, right_on, i + 1)

\* pd.merge(left, right, left_on=..., right_on=..., how='left'): every left
\* row in left order, once per matching right row (in right order), or once
\* with nulls when no right row matches.
Merge(left, right, left_on, right_on) ==
    LET add == JoinedCols(right, left_on, right_on)
    IN [cols |-> left.cols \o [a \in 1..Len(add) |-> right.cols[add[a]]],
        rows |-> LeftJoinRows(left, right, left_on, right_on, 1)]

\* df.drop(columns=[c])
Drop(df, c) ==
    LET keep == SelectSeq(Indices(Len(df.cols)), LAMBDA j : df.cols[j] # c)
    IN [cols |-> [a \in 1..Len(keep) |-> df.cols[keep[a]]],
        rows |-> [i \in 1..Len(df.rows) |->
                    [a \in 1..Len(keep) |-> df.rows[i][keep[a]]]]]

\* ---------------------------------------------------------------- pipeline

\* lines 17-24, in dictionary order
csv_files == <<
    [filename |-> "corals.csv", prefix |-> "coral"],
    [filename |-> "currents.csv", prefix |-> "current"],
    [filename |-> "hazards.csv", prefix |-> "hazard"],
    [filename |-> "life.csv", prefix |-> "life"],
    [filename |-> "poi.csv", prefix |-> "poi"],
    [filename |-> "resources.csv", prefix |-> "resource"] >>

Secondary == {csv_files[f].filename : f \in 1..Len(csv_files)}

Files == {"cells.csv", "food_web.csv"} \cup Secondary

\* Two value columns of each secondary file, as the query tool names them.
ValueCols(filename) ==
    CASE filename = "corals.csv" -> <<"coral_cover_pct", "health_index">>
      [] filename = "currents.csv" -> <<"u_mps", "v_mps">>
      [] filename = "hazards.csv" -> <<"type", "severity">>
      [] filename = "life.csv" -> <<"species", "prey_species">>
      [] filename = "poi.csv" -> <<"id", "category">>
      [] filename = "resources.csv" -> <<"type", "family">>

BaseCols == <<"row", "col", "lat", "lon", "depth_m", "biome">>

FoodCols == <<"predator", "prey", "interaction_strength", "biome_overlap">>

\* The base tables read: one or two cells with unique keys, listed in
\* decreasing key order (so that the base order is not the sorted order),
\* each with a biome; the first cell's biome is Trench (biome names are
\* opaque labels).
BaseRecs ==
    {b \in UNION {[1..n -> [key : Coords, biome : Biomes]] : n \in 1..Cardinality(Coords)} :
        /\ \A i, j \in 1..Len(b) : i < j => KeyLess(<<Num(b[j].key[1]), Num(b[j].key[2])>>,
                                                    <<Num(b[i].key[1]), Num(b[i].key[2])>>)
        /\ b[1].key = <<0, 1>>
        /\ b[1].biome = Trench}

\* pd.read_csv(cells_path)
ReadCells(b) ==
    [cols |-> BaseCols,
     rows |-> [i \in 1..Len(b) |->
        <<Num(b[i].key[1]), Num(b[i].key[2]), Num(b[i].key[1]), Num(b[i].key[2]),
          Num(i), b[i].biome>>]]

\* The records a secondary file may hold: at most q of them, each at a
\* coordinate; a life record has a prey_species entry or an empty one.
SecondaryRecs(filename, q) ==
    UNION {[1..n -> [key : Coords,
                     empty : IF filename = "life.csv" THEN BOOLEAN ELSE {FALSE}]]
           : n \in 0..q}

\* pd.read_csv(filepath) of a secondary file
ReadSecondary(filename, recs) ==
    [cols |-> <<"row", "col">> \o ValueCols(filename),
     rows |-> [i \in 1..Len(recs) |->
        <<Num(recs[i].key[1]), Num(recs[i].key[2]), SrcVal(1, i),
          IF recs[i].empty THEN Null ELSE SrcVal(2, i)>>]]

\* The shapes of food_web.csv: all four columns, or one of them missing.
FoodShapes == {"full", "no_biome_overlap", "no_predator"}

FoodRecs(shape, q) ==
    IF shape = "full" THEN UNION {[1..n -> Biomes] : n \in 0..q} ELSE {<<>>}

\* pd.read_csv(food_web_path)
ReadFood(shape, recs) ==
    LET full == [cols |-> FoodCols,
                 rows |-> [i \in 1..Len(recs) |->
                    <<SrcVal(1, i), SrcVal(2, i), Num(i), recs[i]>>]]
    IN CASE shape = "full" -> full
         [] shape = "no_biome_overlap" -> Drop(full, "biome_overlap")
         [] shape = "no_predator" -> Drop(full, "predator")

\* The loop body without its aggregation branch.
ProcessTableUnaggregated(filename, prefix, df_read) ==
    LET renamed == Rename(df_read, prefix)
        prey_col == prefix \o "_prey_species"
    IN IF filename = "life.csv" /\ HasCol(renamed, prey_col)
       THEN FillNa(renamed, prey_col) ELSE renamed

\* lines 36-69: the table handed to the merge
ProcessTable(filename, prefix, df_read) ==
    LET renamed == Rename(df_read, prefix)
        prey_col == prefix \o "_prey_species"
        filled == IF filename = "life.csv" /\ HasCol(renamed, prey_col)
                  THEN FillNa(renamed, prey_col) ELSE renamed
        value_cols == SelectSeq(filled.cols, LAMBDA c : c \notin {"row", "col"})
        df_agg == GroupByAggList(filled, <<"row", "col">>, value_cols)
        cleaned == IF filename = "life.csv" /\ HasCol(df_agg, prey_col)
                   THEN ApplyCleanPrey(df_agg, prey_col) ELSE df_agg
    IN IF Duplicated(filled, <<"row", "col">>) THEN cleaned ELSE filled

\* A food-web aggregation that names the predator list biome_prey and the
\* prey list biome_predators.
FoodAggSwapped(df_food) ==
    LET g == GroupByAggList(df_food, <<"biome_overlap">>,
                            <<"predator", "prey", "interaction_strength">>)
    IN [g EXCEPT !.cols = <<"biome_overlap", "biome_prey", "biome_predators",
                            "biome_interaction_strengths">>]

\* lines 85-95
FoodAgg(df_food) ==
    LET g == GroupByAggList(df_food, <<"biome_overlap">>,
                            <<"predator", "prey", "interaction_strength">>)
    IN [g EXCEPT !.cols = <<"biome_overlap", "biome_predators", "biome_prey",
                            "biome_interaction_strengths">>]

\* lines 97-100
FoodMerge(df, df_food_agg) ==
    LET m == Merge(df, df_food_agg, <<"biome">>, <<"biome_overlap">>)
    IN IF HasCol(m, "biome_overlap") THEN Drop(m, "biome_overlap") ELSE m

\* ------------------------------------------------------------------- texts

DecDigits == <<"0", "1", "2", "3", "4", "5", "6", "7", "8", "9">>

IsDigit(ch) == ch \in Range(DecDigits)
IsSpace(ch) == ch = " "
IsQuote(ch) == ch \in {"'", "\""}
IsPunct(ch) == ch \in {"[", "]", ","}
\* Any other character is an identifier character.
IsLetter(ch) == ~(IsDigit(ch) \/ IsSpace(ch) \/ IsQuote(ch) \/ IsPunct(ch))

DigitVal(ch) == (CHOOSE d \in 1..10 : DecDigits[d] = ch) - 1

RECURSIVE IntText(_)
IntText(n) ==
    IF n < 10 THEN <<DecDigits[n + 1]>>
    ELSE IntText(n \div 10) \o <<DecDigits[(n % 10) + 1]>>

RECURSIVE TextInt(_)
TextInt(s) ==
    IF s = <<>> THEN 0
    ELSE TextInt(SubSeq(s, 1, Len(s) - 1)) * 10 + DigitVal(s[Len(s)])

RECURSIVE Join(_, _)
Join(parts, sep) ==
    IF parts = <<>> THEN <<>>
    ELSE IF Len(parts) = 1 THEN parts[1]
    ELSE parts[1] \o sep \o Join(Tail(parts), sep)

\* Python's repr of a list element and str of a list: strings in single
\* quotes, integers in decimal, a missing value (float nan) as nan.
RECURSIVE PyRepr(_)
PyRepr(v) ==
    CASE v.k = "str" -> <<"'">> \o v.s \o <<"'">>
      [] v.k = "num" -> IntText(v.n)
      [] v.k = "null" -> <<"n", "a", "n">>
      [] v.k = "list" ->
            <<"[">> \o Join([p \in 1..Len(v.l) |-> PyRepr(v.l[p])], <<",", " ">>) \o <<"]">>

\* What DataFrame.to_csv hands the csv writer for a cell: na_rep='' for a
\* null, str(value) for anything else.
CellText(v) ==
    CASE v.k = "null" -> <<>>
      [] v.k = "str" -> v.s
      [] v.k = "num" -> IntText(v.n)
      [] v.k = "list" -> PyRepr(v)

RECURSIVE Doubled(_)
Doubled(s) ==
    IF s = <<>> THEN <<>>
    ELSE (IF Head(s) = "\"" THEN <<"\"", "\"">> ELSE <<Head(s)>>) \o Doubled(Tail(s))

RECURSIVE Undoubled(_)
Undoubled(s) ==
    IF s = <<>> THEN <<>>
    ELSE IF Len(s) >= 2 /\ s[1] = "\"" /\ s[2] = "\"" THEN <<"\"">> \o Undoubled(SubSeq(s, 3, Len(s)))
    ELSE <<Head(s)>> \o Undoubled(Tail(s))

\* The csv writer (QUOTE_MINIMAL): a field holding the delimiter or the quote
\* character is quoted, its quotes doubled.
CsvWrite(s) ==
    IF \E p \in 1..Len(s) : s[p] \in {",", "\""}
    THEN <<"\"">> \o Doubled(s) \o <<"\"">> ELSE s

\* The csv reader: the field, unquoted.
CsvRead(f) ==
    IF Len(f) >= 2 /\ f[1] = "\"" /\ f[Len(f)] = "\""
    THEN Undoubled(SubSeq(f, 2, Len(f) - 1)) ELSE f

\* df.to_csv(merged_path, index=False): the header and one field per cell
to_csv(df) ==
    [cols |-> df.cols,
     rows |-> [i \in 1..Len(df.rows) |->
        [j \in 1..Len(df.cols) |-> CsvWrite(CellText(df.rows[i][j]))]]]

\* ------------------------------------------------------ ast.literal_eval

RECURSIVE Strip(_)
Strip(s) ==
    IF s = <<>> THEN s
    ELSE IF IsSpace(Head(s)) THEN Strip(Tail(s))
    ELSE IF IsSpace(s[Len(s)]) THEN Strip(SubSeq(s, 1, Len(s) - 1))
    ELSE s

StartsWith(s, ch) == s # <<>> /\ Head(s) = ch
EndsWith(s, ch) == s # <<>> /\ s[Len(s)] = ch

\* The first position from p on where ch stands, or 0.
FindChar(s, ch, p) ==
    LET at == {q \in p..Len(s) : s[q] = ch}
    IN IF at = {} THEN 0 ELSE CHOOSE q \in at : \A r \in at : q <= r

\* The first position from p on where ch stands three times in a row, or 0.
FindTriple(s, ch, p) ==
    LET at == {q \in p..(Len(s) - 2) : s[q] = ch /\ s[q + 1] = ch /\ s[q + 2] = ch}
    IN IF at = {} THEN 0 ELSE CHOOSE q \in at : \A r \in at : q <= r

RECURSIVE DigitRun(_)
DigitRun(s) == IF s = <<>> \/ ~IsDigit(Head(s)) THEN 0 ELSE 1 + DigitRun(Tail(s))

RECURSIVE NameRun(_)
NameRun(s) ==
    IF s = <<>> \/ ~(IsLetter(Head(s)) \/ IsDigit(Head(s))) THEN 0
    ELSE 1 + NameRun(Tail(s))

ErrorToken == [t |-> "error", s |-> <<>>]

\* F(e), with e evaluated once and then named.
With(e, F(_)) == CHOOSE r \in {F(x) : x \in {e}} : TRUE

\* Python's tokens of an expression over brackets, commas, blanks, quoted
\* strings (single or triple quoted), decimal integers and names.  A token
\* the tokenizer rejects ends the stream with ErrorToken.
RECURSIVE Tokenize(_)
Tokenize(s) ==
    IF s = <<>> THEN <<>>
    ELSE LET ch == Head(s)
             n == Len(s)
             then(tok, from) ==
                With(SubSeq(s, from, n), LAMBDA rest : <<tok>> \o Tokenize(rest))
         IN IF IsSpace(ch) THEN With(Tail(s), LAMBDA rest : Tokenize(rest))
            ELSE IF IsPunct(ch) THEN then([t |-> ch, s |-> <<>>], 2)
            ELSE IF IsQuote(ch) THEN
                IF n >= 3 /\ s[2] = ch /\ s[3] = ch
                THEN With(FindTriple(s, ch, 4), LAMBDA p :
                        IF p = 0 THEN <<ErrorToken>>
                        ELSE then([t |-> "str", s |-> SubSeq(s, 4, p - 1)], p + 3))
                ELSE With(FindChar(s, ch, 2), LAMBDA p :
                        IF p = 0 THEN <<ErrorToken>>
                        ELSE then([t |-> "str", s |-> SubSeq(s, 2, p - 1)], p + 1))
            ELSE IF IsDigit(ch) THEN
                With(DigitRun(s), LAMBDA m :
                    IF \/ m < n /\ IsLetter(s[m + 1])
                       \/ m > 1 /\ ch = "0" /\ \E q \in 2..m : s[q] # "0"
                    THEN <<ErrorToken>>
                    ELSE then([t |-> "num", s |-> SubSeq(s, 1, m)], m + 1))
            ELSE With(NameRun(s), LAMBDA m :
                    then([t |-> "name", s |-> SubSeq(s, 1, m)], m + 1))

Tuple(l) == [k |-> "tuple", l |-> l]
\* A node literal_eval rejects (a name, a subscript).
BadNode == [k |-> "bad"]

Fail == [ok |-> FALSE]

NextIs(toks, t) == toks # <<>> /\ Head(toks).t = t

\* Adjacent string literals are one string.
RECURSIVE StrRun(_)
StrRun(toks) ==
    IF NextIs(toks, "str")
    THEN With(StrRun(Tail(toks)), LAMBDA more :
            [s |-> Head(toks).s \o more.s, rest |-> more.rest])
    ELSE [s |-> <<>>, rest |-> toks]

RECURSIVE ParseExpr(_)
RECURSIVE ParseItems(_)
RECURSIVE ParseTrailers(_, _)

\* expr ("," expr)* [","]: the items, whether a comma was seen, the rest
ParseItems(toks) ==
    With(ParseExpr(toks), LAMBDA e :
        IF ~e.ok THEN Fail
        ELSE IF NextIs(e.rest, ",")
        THEN With(Tail(e.rest), LAMBDA after :
                IF after = <<>> \/ NextIs(after, "]")
                THEN [ok |-> TRUE, items |-> <<e.v>>, comma |-> TRUE, rest |-> after]
                ELSE With(ParseItems(after), LAMBDA more :
                        IF ~more.ok THEN Fail
                        ELSE [ok |-> TRUE, items |-> <<e.v>> \o more.items,
                              comma |-> TRUE, rest |-> more.rest]))
        ELSE [ok |-> TRUE, items |-> <<e.v>>, comma |-> FALSE, rest |-> e.rest])

\* Subscripts after an atom: the whole is a Subscript node.
ParseTrailers(v, toks) ==
    IF NextIs(toks, "[")
    THEN With(ParseItems(Tail(toks)), LAMBDA it :
            IF it.ok /\ NextIs(it.rest, "]")
            THEN With(Tail(it.rest), LAMBDA rest : ParseTrailers(BadNode, rest))
            ELSE Fail)
    ELSE [ok |-> TRUE, v |-> v, rest |-> toks]

ParseExpr(toks) ==
    IF toks = <<>> THEN Fail
    ELSE With(Tail(toks), LAMBDA tl :
        CASE Head(toks).t = "[" ->
                IF NextIs(tl, "]")
                THEN With(Tail(tl), LAMBDA rest : ParseTrailers(List(<<>>), rest))
                ELSE With(ParseItems(tl), LAMBDA it :
                        IF it.ok /\ NextIs(it.rest, "]")
                        THEN With(Tail(it.rest), LAMBDA rest :
                                ParseTrailers(List(it.items), rest))
                        ELSE Fail)
          [] Head(toks).t = "str" ->
                With(StrRun(toks), LAMBDA run : ParseTrailers(Str(run.s), run.rest))
          [] Head(toks).t = "num" -> ParseTrailers(Num(TextInt(Head(toks).s)), tl)
          [] Head(toks).t = "name" -> ParseTrailers(BadNode, tl)
          [] OTHER -> Fail)

RECURSIVE HasBadNode(_)
HasBadNode(v) ==
    CASE v.k = "bad" -> TRUE
      [] v.k \in {"list", "tuple"} -> \E p \in 1..Len(v.l) : HasBadNode(v.l[p])
      [] OTHER -> FALSE

Raised(e) == [exc |-> e]
Returned(v) == [exc |-> "none", v |-> v]

\* ast.literal_eval(s): the value, or the exception raised
literal_eval(s) ==
    With(ParseItems(Tokenize(s)), LAMBDA top :
        IF ~top.ok THEN Raised("SyntaxError")
        ELSE IF top.rest # <<>> THEN Raised("SyntaxError")
        ELSE With(IF Len(top.items) = 1 /\ ~top.comma THEN top.items[1]
                  ELSE Tuple(top.items),
                  LAMBDA v : IF HasBadNode(v) THEN Raised("ValueError") ELSE Returned(v)))

\* ---------------------------------------------------------------- readers

EmptyList == List(<<>>)

Caught(r) == r.exc \in {"ValueError", "SyntaxError"}

\* app/main.py, safe_eval: val is a field as csv.DictReader returns it
safe_eval(val) ==
    IF val = <<>> THEN Returned(EmptyList)
    ELSE With(Strip(val), LAMBDA v :
            IF StartsWith(v, "[") /\ EndsWith(v, "]")
            THEN With(literal_eval(v), LAMBDA r :
                    IF Caught(r) THEN Returned(EmptyList) ELSE r)
            ELSE Returned(Str(v)))

AllDigits(s) == s # <<>> /\ \A p \in 1..Len(s) : IsDigit(s[p])

\* int(v): blanks around the digits are accepted
PyInt(v) ==
    IF AllDigits(Strip(v)) THEN Returned(Num(TextInt(Strip(v)))) ELSE Raised("ValueError")

\* float(v), for the texts of digits with at most one point
PyFloat(v) ==
    LET t == Strip(v)
        digits == SelectSeq(t, IsDigit)
        points == SelectSeq(t, LAMBDA ch : ch = ".")
    IN IF digits # <<>> /\ Len(points) <= 1 /\ Len(digits) + Len(points) = Len(t)
       THEN Returned([k |-> "float", s |-> t]) ELSE Raised("ValueError")

\* app/main.py lines 48-60: what get_grid stores in full_data for a field;
\* kept is FALSE when the field is left out
get_grid_value(v) ==
    IF v # <<>> /\ Strip(v) # <<>>
    THEN IF StartsWith(Strip(v), "[") /\ EndsWith(Strip(v), "]")
         THEN [kept |-> TRUE, r |-> safe_eval(v)]
         ELSE With(IF "." \in Range(v) THEN PyFloat(v) ELSE PyInt(v), LAMBDA n :
                [kept |-> TRUE, r |-> IF n.exc = "ValueError" THEN Returned(Str(v)) ELSE n])
    ELSE [kept |-> FALSE, r |-> Returned(Null)]

\* The texts pd.read_csv reads as a missing value (of the characters used).
NaTexts == {<<>>, <<"n", "a", "n">>}

\* pd.read_csv, per field: a missing value, a number or a string
ReadCsvValue(t) ==
    IF t \in NaTexts THEN Null
    ELSE IF AllDigits(t) THEN Num(TextInt(t))
    ELSE Str(t)

\* app/tools.py, safe_parse_list: val is a value of the data frame read_csv built
safe_parse_list(val) ==
    IF IsNull(val) \/ val = EmptyStr THEN Returned(EmptyList)
    ELSE IF IsStr(val) /\ StartsWith(val.s, "[") /\ EndsWith(val.s, "]")
    THEN With(literal_eval(val.s), LAMBDA r :
            IF Caught(r) THEN Returned(EmptyList) ELSE r)
    ELSE Returned(EmptyList)

\* app/tools.py lines 11-22
list_columns == {
    "hazard_type", "hazard_severity", "hazard_notes",
    "life_species", "life_avg_depth_m", "life_density", "life_threat_level",
    "life_behavior", "life_trophic_level", "life_prey_species",
    "poi_id", "poi_category", "poi_label", "poi_description", "poi_research_value",
    "resource_type", "resource_family", "resource_abundance", "resource_purity",
    "resource_extraction_difficulty", "resource_environmental_impact",
    "resource_economic_value", "resource_description",
    "coral_coral_cover_pct", "coral_health_index", "coral_bleaching_risk",
    "coral_biodiversity_index",
    "current_u_mps", "current_v_mps", "current_speed_mps", "current_stability",
    "current_flow_direction",
    "biome_predators", "biome_prey", "biome_interaction_strengths" }

\* The fields of a csv file as its reader returns them.
Fields(file) ==
    [cols |-> file.cols,
     rows |-> [i \in 1..Len(file.rows) |->
        [j \in 1..Len(file.cols) |-> CsvRead(file.rows[i][j])]]]

\* app/tools.py lines 36-39, on the fields f of the file
ParseListColumns(f) ==
    [cols |-> f.cols,
     rows |-> [i \in 1..Len(f.rows) |->
        [j \in 1..Len(f.cols) |->
            IF f.cols[j] \in list_columns
            THEN safe_parse_list(ReadCsvValue(f.rows[i][j])).v
            ELSE ReadCsvValue(f.rows[i][j])]]]

\* app/tools.py lines 8-39: DF after the list columns are parsed
LoadDF(file) == With(Fields(file), ParseListColumns)

AsList(v) == IF IsList(v) THEN v ELSE EmptyList

\* app/main.py lines 46-60: full_data of row i, the fields get_grid keeps
FullData(f, i) ==
    With({c \in Range(f.cols) : get_grid_value(Cell(f, i, c)).kept}, LAMBDA kept :
        [c \in kept |-> get_grid_value(Cell(f, i, c)).r.v])

\* full_data.get(c, [])
FullGet(f, i, c) ==
    IF HasCol(f, c) /\ get_grid_value(Cell(f, i, c)).kept
    THEN get_grid_value(Cell(f, i, c)).r.v ELSE EmptyList

\* app/main.py lines 62-81: the cell_data of row i
CellData(f, i) ==
    [row |-> PyInt(Cell(f, i, "row")).v, col |-> PyInt(Cell(f, i, "col")).v,
     lat |-> PyFloat(Cell(f, i, "lat")).v, lon |-> PyFloat(Cell(f, i, "lon")).v,
     depth |-> PyFloat(Cell(f, i, "depth_m")).v, biome |-> Cell(f, i, "biome"),
     full_data |-> FullData(f, i),
     hazards |-> AsList(FullGet(f, i, "hazard_type")),
     resources |-> AsList(FullGet(f, i, "resource_type")),
     life |-> AsList(FullGet(f, i, "life_species"))]

\* int() or float() of a required field of row i raises
RowRaises(f, i) ==
    \/ \E c \in {"row", "col"} : PyInt(Cell(f, i, c)).exc # "none"
    \/ \E c \in {"lat", "lon", "depth_m"} : PyFloat(Cell(f, i, c)).exc # "none"

\* app/main.py lines 39-85, on the fields f of the file
GridData(f) ==
    IF f.rows # <<>> /\ ~({"row", "col", "lat", "lon", "depth_m", "biome"} \subseteq Range(f.cols))
    THEN [raised |-> "KeyError"]
    ELSE IF \E i \in 1..Len(f.rows) : RowRaises(f, i) THEN [raised |-> "ValueError"]
    ELSE [data |-> [i \in 1..Len(f.rows) |-> CellData(f, i)]]

\* app/main.py lines 32-85: the response of get_grid
GridResponse(file) ==
    IF file = <<>> THEN [error |-> "merged.csv not found"]
    ELSE With(Fields(file[1]), GridData)

NoFile == <<>>
File(t) == <<t>>

\* ----------------------------------------------------------- main() steps

\* The optional files of the worlds that supply up to MaxRecs records.
RecordFiles == {"hazards.csv", "life.csv", "food_web.csv"}

Quota(present) ==
    IF present \subseteq RecordFiles \cup {"cells.csv"} THEN MaxRecs ELSE MaxRecsWide

NoSrc == [f \in Files |-> EmptyFrame]

InitPipe(worlds, files) ==
    /\ exists \in worlds
    /\ quota = Quota(exists)
    /\ pc = "check"
    /\ idx = 1
    /\ df_cells = EmptyFrame
    /\ df_other = EmptyFrame
    /\ src = NoSrc
    /\ merged \in files
    /\ stdout = <<>>
    /\ ret = "pending"

\* lines 9-11: the base table is missing
MissingCells ==
    /\ pc = "check"
    /\ "cells.csv" \notin exists
    /\ stdout' = Append(stdout, "Error: cells.csv not found.")
    /\ ret' = "None"
    /\ pc' = "done"
    /\ UNCHANGED <<exists, quota, idx, df_cells, df_other, src, merged>>
    /\ UNCHANGED <<textVars, readerVars>>

\* lines 13-15
LoadCells ==
    /\ pc = "check"
    /\ "cells.csv" \in exists
    /\ \E b \in BaseRecs :
        /\ df_cells' = ReadCells(b)
        /\ src' = [src EXCEPT !["cells.csv"] = ReadCells(b)]
    /\ stdout' = Append(stdout, "Loading base file")
    /\ pc' = "loop"
    /\ UNCHANGED <<exists, quota, idx, df_other, merged, ret>>
    /\ UNCHANGED <<textVars, readerVars>>

NextFile ==
    /\ idx' = idx + 1
    /\ pc' = IF idx = Len(csv_files) THEN "food" ELSE "loop"

\* A skip that still gives the grid the category's columns, all null.
SkipFileFilled ==
    /\ pc = "loop"
    /\ csv_files[idx].filename \notin exists
    /\ stdout' = Append(stdout, "Skipping " \o csv_files[idx].filename)
    /\ df_cells' = Merge(df_cells,
                         Rename(ReadSecondary(csv_files[idx].filename, <<>>), csv_files[idx].prefix),
                         <<"row", "col">>, <<"row", "col">>)
    /\ NextFile
    /\ UNCHANGED <<exists, quota, df_other, src, merged, ret>>
    /\ UNCHANGED <<textVars, readerVars>>

\* lines 27-30: a secondary file is missing
SkipFile ==
    /\ pc = "loop"
    /\ csv_files[idx].filename \notin exists
    /\ stdout' = Append(stdout, "Skipping " \o csv_files[idx].filename)
    /\ NextFile
    /\ UNCHANGED <<exists, quota, df_cells, df_other, src, merged, ret>>
    /\ UNCHANGED <<textVars, readerVars>>

\* lines 27-74: one pass of the loop body over a file that is present
ProcessFile ==
    /\ pc = "loop"
    /\ csv_files[idx].filename \in exists
    /\ \E recs \in SecondaryRecs(csv_files[idx].filename, quota) :
        LET f == csv_files[idx].filename
            df_read == ReadSecondary(f, recs)
            processed == ProcessTable(f, csv_files[idx].prefix, df_read)
        IN /\ df_other' = processed
           /\ df_cells' = Merge(df_cells, processed, <<"row", "col">>, <<"row", "col">>)
           /\ src' = [src EXCEPT ![f] = df_read]
           /\ quota' = quota - Len(recs)
    /\ stdout' = Append(stdout, "Processing " \o csv_files[idx].filename)
    /\ NextFile
    /\ UNCHANGED <<exists, merged, ret>>
    /\ UNCHANGED <<textVars, readerVars>>

\* line 78, false
FoodWebAbsent ==
    /\ pc = "food"
    /\ "food_web.csv" \notin exists
    /\ pc' = "save"
    /\ UNCHANGED <<exists, quota, idx, df_cells, df_other, src, merged, stdout, ret>>
    /\ UNCHANGED <<textVars, readerVars>>

\* lines 78-104
FoodWeb ==
    /\ pc = "food"
    /\ "food_web.csv" \in exists
    /\ \E shape \in FoodShapes : \E recs \in FoodRecs(shape, quota) :
        LET df_food == ReadFood(shape, recs)
        IN /\ src' = [src EXCEPT !["food_web.csv"] = df_food]
           /\ quota' = quota - Len(recs)
           /\ \/ /\ ~HasCol(df_food, "biome_overlap")
                 /\ df_cells' = df_cells
                 /\ stdout' = Append(stdout, "Processing food_web.csv")
              \/ /\ HasCol(df_food, "biome_overlap")
                 /\ ~HasCol(df_food, "predator")
                 /\ df_cells' = df_cells
                 /\ stdout' = stdout \o <<"Processing food_web.csv", "Error processing food_web">>
              \/ /\ HasCol(df_food, "biome_overlap")
                 /\ HasCol(df_food, "predator")
                 /\ df_cells' = FoodMerge(df_cells, FoodAgg(df_food))
                 /\ stdout' = stdout \o <<"Processing food_web.csv", "Merged food_web">>
    /\ pc' = "save"
    /\ UNCHANGED <<exists, idx, df_other, merged, ret>>
    /\ UNCHANGED <<textVars, readerVars>>

\* lines 106-108
Save ==
    /\ pc = "save"
    /\ merged' = File(to_csv(df_cells))
    /\ stdout' = stdout \o <<"Saving merged data", "Done.">>
    /\ ret' = "None"
    /\ pc' = "done"
    /\ UNCHANGED <<exists, quota, idx, df_cells, df_other, src>>
    /\ UNCHANGED <<textVars, readerVars>>


\* --------------------------------------------------------- reader steps

\* The output of an earlier run over a one-cell world without optional files.
StaleFile == File(to_csv(ReadCells(<<[key |-> <<0, 1>>, biome |-> Trench]>>)))

\* GET /api/grid
GetGrid ==
    /\ grid_resp' = GridResponse(merged)
    /\ UNCHANGED tools_mod
    /\ UNCHANGED <<pipeVars, textVars>>

\* import app.tools: line 8 raises when merged.csv is missing
ImportTools ==
    /\ tools_mod' = IF merged = NoFile
                    THEN [state |-> "raised", exc |-> "FileNotFoundError"]
                    ELSE [state |-> "loaded", DF |-> LoadDF(merged[1])]
    /\ UNCHANGED grid_resp
    /\ UNCHANGED <<pipeVars, textVars>>

\* ------------------------------------------------- serializer and parsers

NotRun == [exc |-> "notrun"]
NoParse == [safe_eval |-> NotRun, get_grid |-> NotRun, safe_parse_list |-> NotRun]
NoValue == [k |-> "none"]
NoText == [written |-> FALSE, s |-> <<>>]
Written(s) == [written |-> TRUE, s |-> s]

Elems == {Str(<<"a">>), EmptyStr, Num(1), Null}

\* The cell values handed to the serializer: null, the empty string and the
\* lists of at most MaxElems elements.
Values == {Null, EmptyStr} \cup {List(l) : l \in UNION {[1..n -> Elems] : n \in 0..MaxElems}}

TextAlphabet == {"[", "]", ",", " ", "'", "a", "1"}

\* The raw field texts handed to the parsers.
Texts == UNION {[1..n -> TextAlphabet] : n \in 0..MaxLen}

\* to_csv writes the cell, the csv reader returns the field
WriteCell ==
    /\ ~text.written
    /\ value # NoValue
    /\ text' = Written(CsvRead(CsvWrite(CellText(value))))
    /\ UNCHANGED <<value, parsed>>
    /\ UNCHANGED <<pipeVars, readerVars>>

ParseSafeEval ==
    /\ text.written
    /\ parsed.safe_eval = NotRun
    /\ parsed' = [parsed EXCEPT !.safe_eval = safe_eval(text.s)]
    /\ UNCHANGED <<text, value>>
    /\ UNCHANGED <<pipeVars, readerVars>>

ParseGetGrid ==
    /\ text.written
    /\ parsed.get_grid = NotRun
    /\ parsed' = [parsed EXCEPT !.get_grid = get_grid_value(text.s)]
    /\ UNCHANGED <<text, value>>
    /\ UNCHANGED <<pipeVars, readerVars>>

ParseTools ==
    /\ text.written
    /\ parsed.safe_parse_list = NotRun
    /\ parsed' = [parsed EXCEPT !.safe_parse_list = safe_parse_list(ReadCsvValue(text.s))]
    /\ UNCHANGED <<text, value>>
    /\ UNCHANGED <<pipeVars, readerVars>>

\* --------------------------------------------------------- specifications

IdleText == text = NoText /\ value = NoValue /\ parsed = NoParse
IdleReaders == grid_resp = [none |-> TRUE] /\ tools_mod = [state |-> "none"]
IdlePipe ==
    /\ exists = {}
    /\ quota = 0
    /\ pc = "off"
    /\ idx = 1
    /\ df_cells = EmptyFrame
    /\ df_other = EmptyFrame
    /\ src = NoSrc
    /\ merged = NoFile
    /\ stdout = <<>>
    /\ ret = "pending"

\* The pipeline alone, over every set of files present.
Init == InitPipe(SUBSET Files, {NoFile}) /\ IdleText /\ IdleReaders

Next ==
    \/ MissingCells
    \/ LoadCells
    \/ SkipFile
    \/ ProcessFile
    \/ FoodWebAbsent
    \/ FoodWeb
    \/ Save

Spec == Init /\ [][Next]_vars

\* The pipeline and the readers of its output, which may run at any time;
\* merged.csv may be left over from an earlier run.
ServiceFiles == {"cells.csv", "life.csv", "food_web.csv"}

InitService == InitPipe(SUBSET ServiceFiles, {NoFile, StaleFile}) /\ IdleText /\ IdleReaders

NextService ==
    \/ Next
    \/ GetGrid
    \/ ImportTools

SpecService == InitService /\ [][NextService]_vars

\* The serializer and the parsers, over bounded values and texts.
InitText ==
    /\ IdlePipe
    /\ IdleReaders
    /\ parsed = NoParse
    /\ \/ value \in Values /\ text = NoText
       \/ value = NoValue /\ text \in {Written(s) : s \in Texts}

NextText ==
    \/ WriteCell
    \/ ParseSafeEval
    \/ ParseGetGrid
    \/ ParseTools

SpecText == InitText /\ [][NextText]_vars

\* ------------------------------------------------------------ properties

BaseLoaded == pc \in {"loop", "food", "save", "done"} /\ "cells.csv" \in exists

Finished == pc = "done" /\ "cells.csv" \in exists

NoRepeat(seq) == \A i, j \in 1..Len(seq) : i # j => seq[i] # seq[j]

\* Some coordinate occurs in several rows of table t.
Repeats(t) == ~NoRepeat(Keys(t))

\* The key fields of the rows of a written file.
FileKeys(file) == [i \in 1..Len(file.rows) |-> <<Cell(file, i, "row"), Cell(file, i, "col")>>]

KeyTexts(keys) == [i \in 1..Len(keys) |-> <<IntText(keys[i][1]), IntText(keys[i][2])>>]

\* C1: once the base table is loaded, after every merge step the grid's
\* (row, col) keys are the base table's keys, in the base order and without
\* duplicates, whatever files are present and however many records share a
\* coordinate; the rows of the written file carry the same keys.
KeysPreserved ==
    BaseLoaded =>
        /\ NoRepeat(Keys(src["cells.csv"]))
        /\ Keys(df_cells) = Keys(src["cells.csv"])
        /\ pc = "done" =>
            /\ merged # NoFile
            /\ FileKeys(merged[1]) = KeyTexts(Keys(src["cells.csv"]))

\* A finished run over a two-cell grid with a duplicated hazards coordinate
\* and a food-web record.
KeysPreservedWitness ==
    /\ Finished
    /\ Len(df_cells.rows) = 2
    /\ Len(src["hazards.csv"].rows) >= 2
    /\ Repeats(src["hazards.csv"])
    /\ Len(src["food_web.csv"].rows) >= 1
    /\ HasCol(df_cells, "biome_prey")

\* The positions, in source-row order, of the records of secondary table t
\* at the coordinate of grid row i.
RecordsAt(t, i) ==
    SelectSeq(Indices(Len(t.rows)), LAMBDA r : KeyOf(t, r) = KeyOf(df_cells, i))

\* The positions of the food-web records whose overlap is the biome of grid row i.
FoodRecordsAt(t, i) ==
    SelectSeq(Indices(Len(t.rows)),
              LAMBDA r : Cell(t, r, "biome_overlap") = Cell(df_cells, i, "biome"))

\* The j-th value of record r of file f as the loop body aggregates it: a
\* missing prey_species entry of life.csv is the empty string.
SourceValue(f, r, j) ==
    LET v == Cell(src[f], r, ValueCols(f)[j])
    IN IF f = "life.csv" /\ j = 2 /\ IsNull(v) THEN EmptyStr ELSE v

GridCol(k, j) == csv_files[k].prefix \o "_" \o ValueCols(csv_files[k].filename)[j]

FoodSrcCols == <<"predator", "prey", "interaction_strength">>
FoodListCols == <<"biome_predators", "biome_prey", "biome_interaction_strengths">>

\* v lists exactly the values of column c of the records m of table t, in order.
ListsRecords(v, t, m, c) ==
    /\ IsList(v)
    /\ Len(v.l) = Len(m)
    /\ \A p \in 1..Len(m) : v.l[p] = Cell(t, m[p], c)

\* C2: on every cell, every list-valued column of a category has one element
\* per source record of the cell (of the cell's biome, for the food web), the
\* p-th element being the value of the p-th such record in source-row order;
\* a category whose table was aggregated has such a list in every value
\* column of every cell with records (the collapsed prey column apart).
Aligned ==
    /\ \A k \in 1..Len(csv_files) : \A j \in 1..2 :
        LET f == csv_files[k].filename
        IN HasCol(df_cells, GridCol(k, j)) =>
            \A i \in 1..Len(df_cells.rows) :
                LET v == Cell(df_cells, i, GridCol(k, j))
                    m == RecordsAt(src[f], i)
                IN /\ IsList(v) =>
                        /\ Len(v.l) = Len(m)
                        /\ \A p \in 1..Len(m) : v.l[p] = SourceValue(f, m[p], j)
                   /\ ( /\ Repeats(src[f])
                        /\ m # <<>>
                        /\ GridCol(k, j) # "life_prey_species" ) => IsList(v)
    /\ \A j \in 1..Len(FoodListCols) :
        HasCol(df_cells, FoodListCols[j]) =>
            \A i \in 1..Len(df_cells.rows) :
                LET v == Cell(df_cells, i, FoodListCols[j])
                    m == FoodRecordsAt(src["food_web.csv"], i)
                IN (IsList(v) \/ m # <<>>) =>
                        ListsRecords(v, src["food_web.csv"], m, FoodSrcCols[j])

\* A finished run in which one cell lists two hazards records and the other
\* cell one.
AlignedWitness ==
    /\ Finished
    /\ \E i, h \in 1..Len(df_cells.rows) :
        /\ HasCol(df_cells, "hazard_severity")
        /\ IsList(Cell(df_cells, i, "hazard_severity"))
        /\ Len(Cell(df_cells, i, "hazard_severity").l) = 2
        /\ IsList(Cell(df_cells, h, "hazard_severity"))
        /\ Len(Cell(df_cells, h, "hazard_severity").l) = 1

LifeMerged == HasCol(df_cells, "life_prey_species")

LifeRecordsAt(i) == RecordsAt(src["life.csv"], i)

\* Every prey_species entry of life.csv at the coordinate of grid row i is empty.
AllPreyEmpty(i) ==
    \A r \in Range(LifeRecordsAt(i)) : IsNull(Cell(src["life.csv"], r, "prey_species"))

\* C3 as stated: a cell all of whose prey_species entries are empty has a
\* null life_prey_species, in every life table.
NullCollapseAlways ==
    LifeMerged =>
        \A i \in 1..Len(df_cells.rows) :
            AllPreyEmpty(i) => IsNull(Cell(df_cells, i, "life_prey_species"))

\* C3, amended: a cell all of whose prey_species entries are empty has a null
\* life_prey_species when the life table repeats a coordinate or holds no
\* record of the cell, and the empty string when the table repeats no
\* coordinate and holds a record of the cell; either way it is never a list,
\* and its field of the written file is empty.
NullCollapse ==
    LifeMerged =>
        \A i \in 1..Len(df_cells.rows) :
            AllPreyEmpty(i) =>
                /\ Cell(df_cells, i, "life_prey_species") =
                        IF \/ Repeats(src["life.csv"])
                           \/ LifeRecordsAt(i) = <<>>
                        THEN Null ELSE EmptyStr
                /\ pc = "done" => Cell(merged[1], i, "life_prey_species") = <<>>

\* A finished run in which a cell has two life records, both without prey,
\* and another cell a single life record without prey.
NullCollapseWitness ==
    /\ Finished
    /\ LifeMerged
    /\ \E i, h \in 1..Len(df_cells.rows) :
        /\ Len(LifeRecordsAt(i)) = 2
        /\ AllPreyEmpty(i)
        /\ Len(LifeRecordsAt(h)) = 1
        /\ AllPreyEmpty(h)

\* A finished run over a life table that repeats no coordinate, with a cell
\* whose single life record has no prey.
NullCollapseUnaggregated ==
    /\ Finished
    /\ LifeMerged
    /\ ~Repeats(src["life.csv"])
    /\ \E i \in 1..Len(df_cells.rows) :
        /\ Len(LifeRecordsAt(i)) = 1
        /\ AllPreyEmpty(i)
        /\ Cell(df_cells, i, "life_prey_species") = EmptyStr

\* The parser was not run, or it returned the value written.
ReadBack(r) == r = NotRun \/ r = Returned(value)

\* C4 as stated: a list or a null written by to_csv is read back equal by
\* safe_parse_list and by safe_eval, and null, the empty list and the empty
\* string are written as three different fields.
SerializerRoundTrip ==
    /\ (value # NoValue /\ (IsList(value) \/ IsNull(value))) =>
        /\ ReadBack(parsed.safe_parse_list)
        /\ ReadBack(parsed.safe_eval)
    /\ (text.written /\ value \in {Null, EmptyList, EmptyStr}) =>
        \A other \in {Null, EmptyList, EmptyStr} \ {value} :
            text.s # CsvRead(CsvWrite(CellText(other)))

\* A null was written and both parsers read the empty list back.
NullReadBackAsList ==
    /\ value = Null
    /\ text = Written(CellText(EmptyStr))
    /\ parsed.safe_parse_list = Returned(EmptyList)
    /\ parsed.safe_eval = Returned(EmptyList)

\* The columns of the categories whose files are among present.
CategoryCols(present) ==
    {GridCol(k, j) : k \in {n \in 1..Len(csv_files) : csv_files[n].filename \in present},
                     j \in 1..2}
    \cup (IF "food_web.csv" \in present THEN Range(FoodListCols) ELSE {})

\* C5: with the base table present, a run reads exactly the optional files
\* that are present, stands at a step of main() until it is done, ends having
\* written the output and returned normally, and the output's columns are
\* the base columns, the columns of every secondary category present, and no
\* column of an absent category (no food-web column without food_web.csv).
MissingOptionalSkipped ==
    /\ (BaseLoaded /\ pc # "done") =>
        /\ pc \in {"loop", "food", "save"}
        /\ pc = "loop" => idx \in 1..Len(csv_files)
    /\ BaseLoaded => \A f \in Files \ exists : src[f] = EmptyFrame
    /\ Finished =>
        /\ ret = "None"
        /\ merged # NoFile
        /\ \A f \in Secondary : f \in exists <=> src[f] # EmptyFrame
        /\ \A k \in 1..Len(csv_files) :
              csv_files[k].filename \notin exists =>
                  ("Skipping " \o csv_files[k].filename) \in Range(stdout)
        /\ Range(BaseCols) \subseteq Range(merged[1].cols)
        /\ CategoryCols(exists \cap Secondary) \subseteq Range(merged[1].cols)
        /\ Range(merged[1].cols) \ Range(BaseCols) \subseteq CategoryCols(exists)

\* A finished run with hazards.csv read, life.csv and food_web.csv absent.
MissingOptionalWitness ==
    /\ Finished
    /\ "hazards.csv" \in exists
    /\ Len(src["hazards.csv"].rows) >= 1
    /\ "life.csv" \notin exists
    /\ "food_web.csv" \notin exists
    /\ merged # NoFile
    /\ HasCol(merged[1], "hazard_type")
    /\ ~HasCol(merged[1], "life_species")

\* C6 as stated: a run without cells.csv ends in an outcome other than the
\* one of a successful run (which returns None and raises nothing), having
\* read no other file and written nothing.
MissingBaseFails ==
    (pc = "done" /\ "cells.csv" \notin exists) =>
        /\ ret # "None"
        /\ src = NoSrc
        /\ merged = NoFile

\* A run without cells.csv has ended as a successful run ends: it returned
\* None; it read no other file and wrote nothing.
MissingBaseReturnsNone ==
    /\ pc = "done"
    /\ "cells.csv" \notin exists
    /\ exists # {}
    /\ ret = "None"
    /\ src = NoSrc
    /\ merged = NoFile
    /\ stdout = <<"Error: cells.csv not found.">>

FoodMerged == \A j \in 1..Len(FoodListCols) : HasCol(df_cells, FoodListCols[j])

\* On a cell whose biome is an overlap value of the food-web table, the three
\* food-web columns list the records with that value, in source-row order.
FoodMatched(i) ==
    LET m == FoodRecordsAt(src["food_web.csv"], i)
    IN m # <<>> =>
        \A j \in 1..Len(FoodListCols) :
            ListsRecords(Cell(df_cells, i, FoodListCols[j]), src["food_web.csv"], m,
                         FoodSrcCols[j])

\* Every food-web column of grid row i is v.
FoodUnmatched(i, v) ==
    FoodRecordsAt(src["food_web.csv"], i) = <<>> =>
        \A j \in 1..Len(FoodListCols) : Cell(df_cells, i, FoodListCols[j]) = v

\* C7 as stated: after the food-web stage a cell whose biome occurs in the
\* food-web table carries the lists of that biome's records, and a cell whose
\* biome does not occur carries empty lists.
FoodFanOutEmptyLists ==
    FoodMerged =>
        \A i \in 1..Len(df_cells.rows) : FoodMatched(i) /\ FoodUnmatched(i, EmptyList)

\* C7, amended: after the food-web stage a cell whose biome occurs in the
\* food-web table carries the lists of predator, prey and interaction_strength
\* of that biome's records in source-row order, so cells of one biome carry
\* equal lists; a cell whose biome does not occur carries null in the three
\* columns, written as empty fields.
FoodFanOut ==
    FoodMerged =>
        /\ \A i \in 1..Len(df_cells.rows) : FoodMatched(i) /\ FoodUnmatched(i, Null)
        /\ \A i, h \in 1..Len(df_cells.rows) :
              Cell(df_cells, i, "biome") = Cell(df_cells, h, "biome") =>
                  \A j \in 1..Len(FoodListCols) :
                      Cell(df_cells, i, FoodListCols[j]) = Cell(df_cells, h, FoodListCols[j])
        /\ pc = "done" =>
              \A i \in 1..Len(df_cells.rows) :
                  FoodRecordsAt(src["food_web.csv"], i) = <<>> =>
                      \A j \in 1..Len(FoodListCols) :
                          Cell(merged[1], i, FoodListCols[j]) = <<>>

\* A finished run over a trench cell and a reef cell with two food-web
\* records, both of the trench.
FoodFanOutWitness ==
    /\ Finished
    /\ FoodMerged
    /\ Len(df_cells.rows) = 2
    /\ Len(FoodRecordsAt(src["food_web.csv"], 1)) = 2
    /\ FoodRecordsAt(src["food_web.csv"], 2) = <<>>

\* A finished run over two trench cells with two food-web records of the trench.
FoodFanOutShared ==
    /\ Finished
    /\ FoodMerged
    /\ Len(df_cells.rows) = 2
    /\ Len(FoodRecordsAt(src["food_web.csv"], 1)) = 2
    /\ Len(FoodRecordsAt(src["food_web.csv"], 2)) = 2

\* A text that opens a list and is no list literal: no closing bracket, or
\* bracketed and rejected by literal_eval.
Malformed(s) ==
    /\ StartsWith(Strip(s), "[")
    /\ \/ ~EndsWith(Strip(s), "]")
       \/ Caught(literal_eval(Strip(s)))

\* C8 as stated: each consumer's parser makes the empty list of a malformed
\* list text, and raises nothing.
MalformedGivesEmptyList ==
    (text.written /\ Malformed(text.s)) =>
        /\ parsed.safe_eval \in {NotRun, Returned(EmptyList)}
        /\ parsed.get_grid \in {NotRun, [kept |-> TRUE, r |-> Returned(EmptyList)]}
        /\ parsed.safe_parse_list \in {NotRun, Returned(EmptyList)}

\* The text [1,1 was parsed: get_grid keeps the text itself, safe_parse_list
\* makes the empty list.
MalformedKeptAsText ==
    /\ text = Written(<<"[", "1", ",", "1">>)
    /\ parsed.safe_eval = Returned(Str(text.s))
    /\ parsed.get_grid = [kept |-> TRUE, r |-> Returned(Str(text.s))]
    /\ parsed.safe_parse_list = Returned(EmptyList)

\* C9 as stated: while merged.csv does not exist, get_grid and the import of
\* the query-tool module answer with a structured response and raise nothing.
ConsumersReportMissing ==
    merged = NoFile =>
        /\ grid_resp \in {[none |-> TRUE], [error |-> "merged.csv not found"]}
        /\ tools_mod.state # "raised"

\* Without merged.csv, get_grid answered with its error object and the import
\* of the query-tool module raised FileNotFoundError.
ToolsImportRaised ==
    /\ merged = NoFile
    /\ grid_resp = [error |-> "merged.csv not found"]
    /\ tools_mod = [state |-> "raised", exc |-> "FileNotFoundError"]

\* The positions in csv_files of the files the loop has processed so far.
Processed == {k \in 1..(idx - 1) : csv_files[k].filename \in exists}

\* The file whose table the loop body last handed to the merge.
LastProcessed == CHOOSE k \in Processed : \A n \in Processed : n <= k

\* The positions of the records of table t at coordinate key.
RecordsOf(t, key) == SelectSeq(Indices(Len(t.rows)), LAMBDA r : KeyOf(t, r) = key)

\* df_other has exactly one row per distinct coordinate of table t.
OneRowPerCoordinate(t) ==
    /\ NoRepeat(Keys(df_other))
    /\ Range(Keys(df_other)) = Range(Keys(t))

PreyFilled(v, c) == IF c = "life_prey_species" /\ IsNull(v) THEN EmptyStr ELSE v

\* df_other has the rows of the file read, under the prefixed column names;
\* with filled, a missing life_prey_species is the empty string.
SameRows(k, filled) ==
    /\ df_other.cols = <<"row", "col", GridCol(k, 1), GridCol(k, 2)>>
    /\ Len(df_other.rows) = Len(src[csv_files[k].filename].rows)
    /\ \A i \in 1..Len(df_other.rows) :
        LET r == src[csv_files[k].filename].rows[i]
            val(j) == IF filled THEN PreyFilled(r[2 + j], GridCol(k, j)) ELSE r[2 + j]
        IN df_other.rows[i] = <<r[1], r[2], val(1), val(2)>>

\* C10 as stated: if the table read repeats a coordinate, the table handed to
\* the merge has one row per distinct coordinate and every non-key value is
\* the list of the coordinate's values in source-row order; if it repeats
\* none, the table handed to the merge has the same rows with scalar values.
ShapeRuleAllLists ==
    (pc \in {"loop", "food", "save", "done"} /\ Processed # {}) =>
        LET k == LastProcessed
            t == src[csv_files[k].filename]
        IN IF Repeats(t)
           THEN /\ OneRowPerCoordinate(t)
                /\ \A i \in 1..Len(df_other.rows) : \A j \in 1..2 :
                    ListsRecords(Cell(df_other, i, GridCol(k, j)), t,
                                 RecordsOf(t, KeyOf(df_other, i)),
                                 ValueCols(csv_files[k].filename)[j])
           ELSE SameRows(k, FALSE)

\* C10, amended: if the table read repeats a coordinate, the table handed to
\* the merge has one row per distinct coordinate, in coordinate order, and
\* every non-key value is the list of the coordinate's values in source-row
\* order (a missing prey_species entry of life.csv listed as the empty
\* string), except that life_prey_species is null for a coordinate all of
\* whose prey_species entries are missing; if it repeats none, the table
\* handed to the merge has the same rows with scalar values, a missing
\* prey_species entry of life.csv replaced by the empty string.
ShapeRule ==
    (pc \in {"loop", "food", "save", "done"} /\ Processed # {}) =>
        LET k == LastProcessed
            f == csv_files[k].filename
            t == src[f]
        IN IF Repeats(t)
           THEN /\ OneRowPerCoordinate(t)
                /\ \A i, h \in 1..Len(df_other.rows) :
                      i < h => KeyLess(KeyTuple(df_other, i, <<"row", "col">>),
                                       KeyTuple(df_other, h, <<"row", "col">>))
                /\ \A i \in 1..Len(df_other.rows) : \A j \in 1..2 :
                    LET v == Cell(df_other, i, GridCol(k, j))
                        m == RecordsOf(t, KeyOf(df_other, i))
                    IN IF /\ GridCol(k, j) = "life_prey_species"
                          /\ \A p \in 1..Len(m) : SourceValue(f, m[p], j) = EmptyStr
                       THEN IsNull(v)
                       ELSE /\ IsList(v)
                            /\ Len(v.l) = Len(m)
                            /\ \A p \in 1..Len(m) : v.l[p] = SourceValue(f, m[p], j)
           ELSE SameRows(k, TRUE)

\* The loop has just handed on a hazards table of three records, two of them
\* at one coordinate with the third, at another coordinate, between them.
ShapeRuleWitness ==
    /\ pc = "loop"
    /\ Processed # {}
    /\ csv_files[LastProcessed].filename = "hazards.csv"
    /\ Len(src["hazards.csv"].rows) = 3
    /\ KeyOf(src["hazards.csv"], 1) = KeyOf(src["hazards.csv"], 3)
    /\ KeyOf(src["hazards.csv"], 1) # KeyOf(src["hazards.csv"], 2)
    /\ Len(df_other.rows) = 2

====
